---- MODULE Spec2Model ----
\* Model of TorchBCModule (mlagents/trainers/components/bc/module_torch.py):
\* the behavioral-cloning updater's construction and its update() loop.
EXTENDS Integers, Sequences, FiniteSets, TLC

\* ---------------------------------------------------------------- bounds
MaxSeqLen == 2
MaxBatch == 2
MaxEpoch == 2
MaxSamples == 2
MaxBlocks == 2
MaxCalls == 2

\* policy_learning_rate * settings.strength, as a small signed integer
LrValues == {-1, 0, 1}
\* the scalar losses a gradient step can report: low or high
LossValues == {0, 1}

VARIABLES
    \* ---- fields of TorchBCModule
    current_lr,            \* self.current_lr
    demonstration_buffer,  \* self.demonstration_buffer: the order of the transitions
    batch_size,            \* self.batch_size
    num_epoch,             \* self.num_epoch
    n_sequences,           \* self.n_sequences
    sequence_length,       \* self.policy.sequence_length
    samples_per_update,    \* self.samples_per_update
    has_updated,           \* self.has_updated
    params,                \* policy parameters: number of gradient steps applied to them
    optimizer,             \* optimizer state: number of optimizer.step() calls
    \* ---- locals of update()
    pc,                    \* position of the caller / of update()
    batch_losses,
    possible_batches,
    max_batches,
    num_batches,
    epoch,                 \* index of the for _ in range(n_epoch) loop
    i,                     \* index of the inner for loop
    mini_batch,            \* <<start, end>> passed to make_mini_batch, <<>> when none
    ret,                   \* <<value>> once update() returned a value, <<>> otherwise
    \* ---- observation of the current call
    entry,                 \* fields as they were when update() was entered
    slices,                \* the <<start, end>> requested so far in this epoch
    shuffles,              \* shuffles performed by this call
    steps,                 \* gradient steps performed by this call
    attempts,              \* mini-batches handed to _update_batch by this call
    samples_used,          \* transitions used for gradient steps by this call
    last_shuffle,          \* buffer order right after this call's latest shuffle
    calls                  \* update() calls the caller has finished

vars == <<current_lr, demonstration_buffer, batch_size, num_epoch, n_sequences,
          sequence_length, samples_per_update, has_updated, params, optimizer,
          pc, batch_losses, possible_batches, max_batches, num_batches, epoch, i,
          mini_batch, ret, entry, slices, shuffles, steps, attempts, samples_used,
          last_shuffle, calls>>

config == <<batch_size, num_epoch, n_sequences, sequence_length, samples_per_update>>
locals == <<batch_losses, possible_batches, max_batches, num_batches, epoch, i, mini_batch>>
observed == <<entry, slices, shuffles, steps, attempts, samples_used, last_shuffle>>

\* ---------------------------------------------------------------- helpers
Min(a, b) == IF a <= b THEN a ELSE b
Max(a, b) == IF a >= b THEN a ELSE b

RECURSIVE SumSeq(_)
SumSeq(s) == IF s = <<>> THEN 0 ELSE Head(s) + SumSeq(Tail(s))

\* np.mean(batch_losses): sum / count, kept as the fraction; count 0 is nan
Mean(s) == [num |-> SumSeq(s), den |-> Len(s)]
IsNaN(m) == m.den = 0

\* {"Losses/Pretraining Loss": 0}
ZeroLoss == [num |-> 0, den |-> 1]

\* settings.batch_size if settings.batch_size else default_batch_size
ResolveBatchSize(settings_batch_size, default_batch_size) ==
    IF settings_batch_size # 0 THEN settings_batch_size ELSE default_batch_size

\* settings.num_epoch if settings.num_epoch else default_num_epoch
ResolveNumEpoch(settings_num_epoch, default_num_epoch) ==
    IF settings_num_epoch # 0 THEN settings_num_epoch ELSE default_num_epoch

\* variant of NSequences without the floor of 1
NSequencesNoFloor(bs, num_experiences, seq_len) ==
    Min(bs, num_experiences) \div seq_len
\* max(min(batch_size, buffer.num_experiences) // sequence_length, 1)
NSequences(bs, num_experiences, seq_len) ==
    Max(Min(bs, num_experiences) \div seq_len, 1)

\* demonstration_buffer.num_experiences
NumExperiences == Len(demonstration_buffer)

\* variant of LrExhausted with a strict comparison
LrExhaustedStrict(lr) == lr < 0
\* if self.current_lr <= 0
LrExhausted(lr) == lr <= 0

\* possible_demo_batches = num_experiences // n_sequences
PossibleBatches(num_experiences, n) == num_experiences \div n

\* variant of MaxBatches that takes the cap as a number of batches
MaxBatchesUndivided(spu, n) == spu
\* max_batches = samples_per_update // n_sequences
MaxBatches(spu, n) == spu \div n

\* num_batches = possible_batches if max_batches == 0 else min(possible_batches, max_batches)
NumBatches(possible, maxb) ==
    IF maxb = 0 THEN possible ELSE Min(possible, maxb)

\* variant of NumIterations that loops over all num_batches
NumIterationsUndivided(nb, seq_len) == nb
\* range(num_batches // sequence_length)
NumIterations(nb, seq_len) == nb \div seq_len

\* variant of SliceStart that counts sequences, not transitions
SliceStartUnaligned(idx, n, seq_len) == idx * n
\* start = i * n_sequences * sequence_length
SliceStart(idx, n, seq_len) == idx * n * seq_len
\* end = (i + 1) * n_sequences * sequence_length
SliceEnd(idx, n, seq_len) == (idx + 1) * n * seq_len

\* the permutations of 1..n
Perms(n) == {p \in [1..n -> 1..n] : \A a, b \in 1..n : p[a] = p[b] => a = b}

\* buffer.shuffle(sequence_length): whole blocks of seq_len transitions are
\* permuted by p; transitions past the last whole block stay where they are
Shuffled(buf, seq_len, p) ==
    [k \in 1..Len(buf) |->
        IF k <= (Len(buf) \div seq_len) * seq_len
        THEN buf[(p[((k - 1) \div seq_len) + 1] - 1) * seq_len + ((k - 1) % seq_len) + 1]
        ELSE buf[k]]

\* make_mini_batch(start, end): the transitions buf[start:end] (Python slicing,
\* 0-based, clipped to the buffer)
MakeMiniBatchData(buf, start, end) ==
    [k \in 1..(Min(end, Len(buf)) - Min(start, Len(buf))) |-> buf[start + k]]

\* bc_loss.detach().cpu().numpy(): the loss is computed by the framework from the
\* mini-batch's transitions and the current parameters; which of LossValues it
\* is stands for that computation
BCLoss(data, p) == (SumSeq(data) + p) % Cardinality(LossValues)

Snapshot == [params |-> params, optimizer |-> optimizer, has_updated |-> has_updated]

\* ---------------------------------------------------------------- Init
\* the state right after __init__
Init ==
    /\ \E policy_learning_rate \in {0, 1}, strength \in {-1, 0, 1} :
          current_lr = policy_learning_rate * strength
    /\ sequence_length \in 1..MaxSeqLen
    /\ \E blocks \in 0..MaxBlocks, rest \in 0..(sequence_length - 1) :
          demonstration_buffer = [k \in 1..(blocks * sequence_length + rest) |-> k]
    /\ \E sbs \in 0..MaxBatch, dbs \in 0..MaxBatch :
          batch_size = ResolveBatchSize(sbs, dbs)
    /\ \E sne \in 0..MaxEpoch, dne \in 0..MaxEpoch :
          num_epoch = ResolveNumEpoch(sne, dne)
    /\ n_sequences = NSequences(batch_size, NumExperiences, sequence_length)
    /\ has_updated = FALSE
    /\ samples_per_update \in 0..MaxSamples
    /\ params = 0
    /\ optimizer = 0
    /\ pc = "idle"
    /\ batch_losses = <<>>
    /\ possible_batches = 0
    /\ max_batches = 0
    /\ num_batches = 0
    /\ epoch = 0
    /\ i = 0
    /\ mini_batch = <<>>
    /\ ret = <<>>
    /\ entry = Snapshot
    /\ slices = <<>>
    /\ shuffles = 0
    /\ steps = 0
    /\ attempts = 0
    /\ samples_used = 0
    /\ last_shuffle = demonstration_buffer
    /\ calls = 0

\* ---------------------------------------------------------------- update()
ResetObserved ==
    /\ entry' = Snapshot
    /\ slices' = <<>>
    /\ shuffles' = 0
    /\ steps' = 0
    /\ attempts' = 0
    /\ samples_used' = 0
    /\ last_shuffle' = demonstration_buffer

\* lines 68-70: the learning rate has reached 0, return without training
UpdateEarlyExit ==
    /\ pc = "idle"
    /\ calls < MaxCalls
    /\ LrExhausted(current_lr)
    /\ ret' = <<ZeroLoss>>
    /\ pc' = "returned"
    /\ ResetObserved
    /\ UNCHANGED <<current_lr, demonstration_buffer, config, has_updated, params,
                   optimizer, locals, calls>>

\* lines 72-80
UpdateStart ==
    /\ pc = "idle"
    /\ calls < MaxCalls
    /\ ~LrExhausted(current_lr)
    /\ batch_losses' = <<>>
    /\ possible_batches' = PossibleBatches(NumExperiences, n_sequences)
    /\ max_batches' = MaxBatches(samples_per_update, n_sequences)
    /\ epoch' = 0
    /\ ret' = <<>>
    /\ pc' = "epoch"
    /\ ResetObserved
    /\ UNCHANGED <<current_lr, demonstration_buffer, config, has_updated, params,
                   optimizer, num_batches, i, mini_batch, calls>>

\* lines 81-89: next epoch: shuffle, compute num_batches, enter the inner loop
EpochShuffle ==
    /\ pc = "epoch"
    /\ epoch < num_epoch
    /\ \E p \in Perms(NumExperiences \div sequence_length) :
          demonstration_buffer' = Shuffled(demonstration_buffer, sequence_length, p)
    /\ last_shuffle' = demonstration_buffer'
    /\ shuffles' = shuffles + 1
    /\ num_batches' = NumBatches(possible_batches, max_batches)
    /\ i' = 0
    /\ slices' = <<>>
    /\ pc' = "batch"
    /\ UNCHANGED <<current_lr, config, has_updated, params, optimizer, batch_losses,
                   possible_batches, max_batches, epoch, mini_batch, ret, entry,
                   steps, attempts, samples_used, calls>>

\* lines 89-93: slice the next mini-batch and hand it to _update_batch
MakeMiniBatch ==
    /\ pc = "batch"
    /\ i < NumIterations(num_batches, sequence_length)
    /\ mini_batch' = <<SliceStart(i, n_sequences, sequence_length),
                       SliceEnd(i, n_sequences, sequence_length)>>
    /\ slices' = Append(slices, mini_batch')
    /\ attempts' = attempts + 1
    /\ pc' = "grad"
    /\ UNCHANGED <<current_lr, demonstration_buffer, config, has_updated, params,
                   optimizer, batch_losses, possible_batches, max_batches,
                   num_batches, epoch, i, ret, entry, shuffles, steps, samples_used,
                   last_shuffle, calls>>

\* lines 123-188 and 94-97: the gradient step succeeds and its loss is recorded
UpdateBatch ==
    /\ pc = "grad"
    /\ batch_losses' = Append(batch_losses,
           BCLoss(MakeMiniBatchData(demonstration_buffer, mini_batch[1], mini_batch[2]),
                  params))
    /\ optimizer' = optimizer + 1
    /\ params' = params + 1
    /\ steps' = steps + 1
    /\ samples_used' = samples_used + (mini_batch[2] - mini_batch[1])
    /\ i' = i + 1
    /\ mini_batch' = <<>>
    /\ pc' = "batch"
    /\ UNCHANGED <<current_lr, demonstration_buffer, config, has_updated,
                   possible_batches, max_batches, num_batches, epoch, ret, entry,
                   slices, shuffles, attempts, last_shuffle, calls>>

\* variant of UpdateBatchRaise that restores the state of the call's entry
UpdateBatchRaiseRollback ==
    /\ pc = "grad"
    /\ pc' = "raised"
    /\ params' = entry.params
    /\ optimizer' = entry.optimizer
    /\ demonstration_buffer' = [k \in 1..Len(demonstration_buffer) |-> k]
    /\ UNCHANGED <<current_lr, config, has_updated, locals, ret, observed, calls>>

\* variant of UpdateBatchRaise that clears has_updated on failure
UpdateBatchRaiseClearsUpdated ==
    /\ pc = "grad"
    /\ pc' = "raised"
    /\ has_updated' = FALSE
    /\ UNCHANGED <<current_lr, demonstration_buffer, config, params, optimizer,
                   locals, ret, observed, calls>>

\* lines 129-184: the gradient step fails before optimizer.step(); nothing in
\* update() catches it (lines 81-98 hold no try), so it leaves update()
UpdateBatchRaise ==
    /\ pc = "grad"
    /\ pc' = "raised"
    /\ UNCHANGED <<current_lr, demonstration_buffer, config, has_updated, params,
                   optimizer, locals, ret, observed, calls>>

\* line 89 exhausted: the epoch is over
EpochEnd ==
    /\ pc = "batch"
    /\ ~(i < NumIterations(num_batches, sequence_length))
    /\ epoch' = epoch + 1
    /\ pc' = "epoch"
    /\ UNCHANGED <<current_lr, demonstration_buffer, config, has_updated, params,
                   optimizer, batch_losses, possible_batches, max_batches,
                   num_batches, i, mini_batch, ret, observed, calls>>

\* variant of UpdateFinish that reports the last loss instead of the mean
UpdateFinishLastLoss ==
    /\ pc = "epoch"
    /\ ~(epoch < num_epoch)
    /\ has_updated' = TRUE
    /\ ret' = <<IF batch_losses = <<>> THEN Mean(<<>>)
                ELSE Mean(<<batch_losses[Len(batch_losses)]>>)>>
    /\ pc' = "returned"
    /\ UNCHANGED <<current_lr, demonstration_buffer, config, params, optimizer,
                   locals, observed, calls>>

\* lines 98-100: all epochs done
UpdateFinish ==
    /\ pc = "epoch"
    /\ ~(epoch < num_epoch)
    /\ has_updated' = TRUE
    /\ ret' = <<Mean(batch_losses)>>
    /\ pc' = "returned"
    /\ UNCHANGED <<current_lr, demonstration_buffer, config, params, optimizer,
                   locals, observed, calls>>

\* ---------------------------------------------------------------- the caller
\* the caller has the result (or has caught the failure); update()'s locals are gone
CallerResume ==
    /\ pc \in {"returned", "raised"}
    /\ pc' = "idle"
    /\ calls' = calls + 1
    /\ batch_losses' = <<>>
    /\ possible_batches' = 0
    /\ max_batches' = 0
    /\ num_batches' = 0
    /\ epoch' = 0
    /\ i' = 0
    /\ mini_batch' = <<>>
    /\ ret' = <<>>
    /\ ResetObserved
    /\ UNCHANGED <<current_lr, demonstration_buffer, config, has_updated, params,
                   optimizer>>

\* current_lr is annealed from outside between calls
AnnealLr ==
    /\ pc = "idle"
    /\ calls < MaxCalls
    /\ \E lr \in LrValues : lr < current_lr /\ current_lr' = lr
    /\ UNCHANGED <<demonstration_buffer, config, has_updated, params, optimizer,
                   pc, locals, ret, observed, calls>>

Next ==
    \/ UpdateEarlyExit
    \/ UpdateStart
    \/ EpochShuffle
    \/ MakeMiniBatch
    \/ UpdateBatch
    \/ UpdateBatchRaise
    \/ EpochEnd
    \/ UpdateFinish
    \/ CallerResume
    \/ AnnealLr

Spec == Init /\ [][Next]_vars

\* ---------------------------------------------------------------- claims
InCall == pc \in {"epoch", "batch", "grad"}

\* the slices one epoch requests when the sample cap is spu
ExpectedSlices(spu) ==
    [k \in 1..NumIterations(NumBatches(PossibleBatches(NumExperiences, n_sequences),
                                       MaxBatches(spu, n_sequences)),
                            sequence_length) |->
        <<(k - 1) * n_sequences * sequence_length, k * n_sequences * sequence_length>>]

IsPrefix(s, t) == Len(s) <= Len(t) /\ \A k \in 1..Len(s) : s[k] = t[k]

\* C1: with current_lr <= 0, update() returns {"Losses/Pretraining Loss": 0} in
\* one step that takes no gradient step (parameters and optimizer unchanged),
\* does not shuffle the buffer and leaves has_updated as it was.
C1_EarlyExitChangesNothing ==
    [][(pc = "idle" /\ current_lr <= 0 /\ pc' # "idle") =>
          /\ pc' = "returned"
          /\ ret' = <<ZeroLoss>>
          /\ params' = params
          /\ optimizer' = optimizer
          /\ demonstration_buffer' = demonstration_buffer
          /\ has_updated' = has_updated
          /\ shuffles' = 0 /\ steps' = 0]_vars

\* an early exit of a module that had trained before: has_updated stays true
C1_Witness ==
    pc = "returned" /\ current_lr <= 0 /\ ret = <<ZeroLoss>> /\ has_updated /\ params > 0

\* C2: has_updated is false after construction, true after every update() that
\* completes with current_lr > 0, and never goes back to false, whatever calls
\* follow (early exits after annealing, calls that fail in a gradient step).
C2_HasUpdatedMonotone ==
    /\ ~has_updated
    /\ []((pc = "returned" /\ current_lr > 0) => has_updated)
    /\ [][has_updated => has_updated']_vars

\* a later call failed in a gradient step after an earlier one had completed
C2_Witness == pc = "raised" /\ has_updated /\ calls >= 1

\* C3: with samples_per_update > 0, the transitions used for gradient steps in
\* one update() call never exceed samples_per_update.
C3_SampleCapRespected ==
    samples_per_update > 0 => samples_used <= samples_per_update

C5_NSequencesAtLeastOne ==
    /\ [](/\ n_sequences >= 1
          /\ n_sequences = Max(1, Min(batch_size, NumExperiences) \div sequence_length))
    /\ [][n_sequences' = n_sequences]_vars

\* an update completed although batch_size is smaller than sequence_length
C5_Witness ==
    /\ batch_size < sequence_length /\ NumExperiences >= sequence_length
    /\ n_sequences = 1 /\ has_updated /\ steps >= 1

\* C6: every slice update() requests starts and ends at a multiple of
\* sequence_length and spans n_sequences * sequence_length transitions.
C6_SlicesAligned ==
    \A k \in 1..Len(slices) :
        /\ slices[k][1] % sequence_length = 0
        /\ slices[k][2] % sequence_length = 0
        /\ slices[k][2] - slices[k][1] = n_sequences * sequence_length

\* a second mini-batch of an epoch with sequences longer than one transition
C6_Witness ==
    pc = "grad" /\ sequence_length >= 2 /\ Len(slices) >= 2 /\ mini_batch[1] > 0

\* C7: an update() with current_lr > 0 ends (it can always take a step, and every
\* step leaves one step fewer to take), and returns only after exactly
\* num_epoch epochs; each epoch shuffles once, before its first mini-batch, then
\* takes num_batches // sequence_length gradient steps on the slices i = 0, 1, ...
\* in order, with num_batches as the spec computes it; one loss is recorded per
\* step and the returned value is the mean of the recorded losses.
C7_Shape ==
    /\ InCall =>
          /\ possible_batches = NumExperiences \div n_sequences
          /\ max_batches = samples_per_update \div n_sequences
          /\ epoch <= num_epoch
          /\ shuffles = (IF pc = "epoch" THEN epoch ELSE epoch + 1)
          /\ Len(batch_losses) = steps
    /\ pc \in {"batch", "grad"} =>
          /\ num_batches = (IF max_batches = 0 THEN possible_batches
                            ELSE Min(possible_batches, max_batches))
          /\ i <= num_batches \div sequence_length
          /\ Len(slices) = (IF pc = "grad" THEN i + 1 ELSE i)
          /\ \A k \in 1..Len(slices) :
                slices[k] = <<(k - 1) * n_sequences * sequence_length,
                              k * n_sequences * sequence_length>>
          /\ steps = epoch * (num_batches \div sequence_length) + i
    /\ (pc = "returned" /\ current_lr > 0) =>
          /\ epoch = num_epoch
          /\ shuffles = num_epoch
          /\ steps = num_epoch * (NumBatches(possible_batches, max_batches)
                                     \div sequence_length)
          /\ Len(batch_losses) = steps
          /\ ret = <<[num |-> SumSeq(batch_losses), den |-> Len(batch_losses)]>>

\* the gradient steps of one epoch of the running call
Iterations == NumIterations(NumBatches(possible_batches, max_batches), sequence_length)

\* the steps update() still has to take when no gradient step fails
StepsLeft ==
    CASE pc = "epoch" -> (num_epoch - epoch) * (2 * Iterations + 2) + 1
      [] pc = "batch" -> (num_epoch - epoch - 1) * (2 * Iterations + 2) + 2
                            + 2 * (Iterations - i)
      [] pc = "grad"  -> (num_epoch - epoch - 1) * (2 * Iterations + 2) + 1
                            + 2 * (Iterations - i)
      [] OTHER -> 0

InCallStep ==
    \/ EpochShuffle \/ MakeMiniBatch \/ UpdateBatch \/ UpdateBatchRaise
    \/ EpochEnd \/ UpdateFinish

C8_FailureKeepsPartialState ==
    pc = "raised" =>
        /\ ret = <<>>
        /\ steps = attempts - 1
        /\ params = entry.params + (attempts - 1)
        /\ optimizer = entry.optimizer + (attempts - 1)
        /\ demonstration_buffer = last_shuffle
        /\ has_updated = entry.has_updated

\* the failure came after an applied step, on a buffer the shuffle reordered
C8_Witness ==
    /\ pc = "raised" /\ attempts >= 2 /\ ~has_updated
    /\ demonstration_buffer # [k \in 1..NumExperiences |-> k]

\* C9: every slice requested lies inside the buffer, 0 <= start < end <=
\* num_experiences, and the slices of one epoch are pairwise disjoint.
C9_SlicesInsideBuffer ==
    /\ \A k \in 1..Len(slices) :
          /\ 0 <= slices[k][1]
          /\ slices[k][1] < slices[k][2]
          /\ slices[k][2] <= NumExperiences
    /\ \A j, k \in 1..Len(slices) :
          j < k => (slices[j][2] <= slices[k][1] \/ slices[k][2] <= slices[j][1])

\* the last slice of an epoch ends short of the buffer's end
C9_Witness ==
    /\ pc = "batch" /\ Len(slices) >= 2
    /\ i = NumIterations(num_batches, sequence_length)
    /\ slices[Len(slices)][2] < NumExperiences

\* C10: when an update() with current_lr > 0 and num_epoch >= 1 on a non-empty
\* buffer completes, it has taken at least one gradient step, so the returned
\* mean is a number.
C10_CompletedUpdateHasLoss ==
    (/\ pc = "returned" /\ current_lr > 0 /\ num_epoch >= 1
     /\ NumExperiences >= 1 /\ has_updated) =>
        /\ steps >= 1
        /\ batch_losses # <<>>
        /\ ~IsNaN(ret[1])

====
